---- MODULE Spec2Model ----
(***************************************************************************)
(* A model of opcodes/x86_64.py: read_instruction_set, the loader that     *)
(* turns the x86-64 XML instruction description into Instruction /         *)
(* InstructionForm / Operand / Encoding / component objects.               *)
(*                                                                         *)
(* The XML document is revealed node by node: every action reads the next  *)
(* node of the document (drawn from a bounded set of declarations) and     *)
(* does to the loader's variables what the code does for that node.  The   *)
(* nodes read so far are kept beside the objects built from them (the xml  *)
(* fields), so that a property can relate the returned model to the        *)
(* document it was loaded from.                                            *)
(*                                                                         *)
(* Attribute values that the code parses with int() are sequences of       *)
(* one-character strings, and int() is computed digit by digit.            *)
(*                                                                         *)
(* Spec is the loader.  SpecObject is what follows the load: the methods   *)
(* of one object of the returned model (an Operand, a REX or a VEX),       *)
(* called in any order.                                                    *)
(***************************************************************************)
EXTENDS Integers, Sequences, FiniteSets, TLC

VARIABLES
    pc,               \* where read_instruction_set is
    instruction_set,  \* the list of finished Instruction objects
    instruction,      \* the Instruction being built
    instruction_form, \* the InstructionForm being built
    encoding,         \* the Encoding being built
    rex,              \* the local variable rex: unbound, or the last REX object built
    xml_component,    \* the component node read last (kept when the load fails on it)
    document,         \* the instruction nodes the loop over the root node has taken
    xml_form,         \* xml_instruction_form: the form node the loop took last
    self,             \* an object of the model whose methods are called
    loaded,           \* self as the loader built it
    first,            \* the arguments of the first set_ignored call that returned
    call              \* the last method call on self and how it ended

\* the variables of read_instruction_set
loader == <<pc, instruction_set, instruction, instruction_form, encoding, rex,
            xml_component, document, xml_form>>

\* the variables of an object in use
object == <<self, loaded, first, call>>

vars == <<pc, instruction_set, instruction, instruction_form, encoding, rex, xml_component,
          document, xml_form, self, loaded, first, call>>

----------------------------------------------------------------------------
(* Bounds of the model. *)

\* operands of a form
MaxOperands == 2
\* component declarations in the whole document
MaxComponents == 3
\* component declarations that may precede a component drawn from the full set
MaxLeading == 1
\* encodings of a form
MaxEncodings == 1
\* forms of an instruction
MaxForms == 1
\* instructions of the document
MaxInstructions == 2

----------------------------------------------------------------------------
(* Python values. *)

\* None
None == [kind |-> "none", val |-> 0]
\* an int
IntV(n) == [kind |-> "int", val |-> n]
\* a reference to the Operand object at position i (0-based) of the form's operands
Ref(i) == [kind |-> "ref", val |-> i]

\* a str
Str(s) == [kind |-> "str", val |-> s]

\* the outcome of evaluating an expression: a value, or an exception
Ok(v) == [ok |-> TRUE, val |-> v]
Raise == [ok |-> FALSE, val |-> None]

\* attribute values, as strings of characters
S_true == <<"t", "r", "u", "e">>
S_false == <<"f", "a", "l", "s", "e">>
S_ignored == <<"i", "g", "n", "o", "r", "e", "d">>

----------------------------------------------------------------------------
(* int(s, base): Python's conversion of a string to an integer.  Leading   *)
(* and trailing blanks are stripped, one sign is allowed, and at least one *)
(* digit of the base must follow; anything else is a ValueError.           *)

DigitValue(c) ==
    CASE c = "0" -> 0 [] c = "1" -> 1 [] c = "2" -> 2 [] c = "3" -> 3
      [] c = "4" -> 4 [] c = "5" -> 5 [] c = "6" -> 6 [] c = "7" -> 7
      [] c = "8" -> 8 [] c = "9" -> 9
      [] c \in {"a", "A"} -> 10 [] c \in {"b", "B"} -> 11
      [] c \in {"c", "C"} -> 12 [] c \in {"d", "D"} -> 13
      [] c \in {"e", "E"} -> 14 [] c \in {"f", "F"} -> 15
      [] OTHER -> 99

RECURSIVE lstrip(_)
lstrip(s) == IF s # <<>> /\ Head(s) = " " THEN lstrip(Tail(s)) ELSE s

RECURSIVE rstrip(_)
rstrip(s) ==
    IF s # <<>> /\ s[Len(s)] = " " THEN rstrip(SubSeq(s, 1, Len(s) - 1)) ELSE s

RECURSIVE DigitsValue(_, _)
DigitsValue(s, base) ==
    IF s = <<>> THEN 0
    ELSE DigitsValue(SubSeq(s, 1, Len(s) - 1), base) * base + DigitValue(s[Len(s)])

int(s, base) ==
    LET t == rstrip(lstrip(s))
        signed == t # <<>> /\ Head(t) \in {"-", "+"}
        digits == IF signed THEN Tail(t) ELSE t
    IN  IF digits = <<>> \/ \E i \in 1..Len(digits) : DigitValue(digits[i]) >= base
        THEN Raise
        ELSE IF signed /\ Head(t) = "-"
             THEN Ok(0 - DigitsValue(digits, base))
             ELSE Ok(DigitsValue(digits, base))

\* operands[n]: Python's list indexing, which counts a negative n from the end
getitem(operands, n) ==
    IF 0 <= n /\ n < Len(operands) THEN Ok(Ref(n))
    ELSE IF n < 0 /\ 0 - Len(operands) <= n THEN Ok(Ref(Len(operands) + n))
    ELSE Raise

\* d[key] for the dict {"true": True, "false": False}
TrueFalse(key) ==
    IF key = S_true THEN Ok(TRUE)
    ELSE IF key = S_false THEN Ok(FALSE)
    ELSE Raise

----------------------------------------------------------------------------
(* The classes of the model.  A constructor gives the object __init__      *)
(* leaves; the xml fields hold the document nodes an object was read from. *)

\* Instruction(name)
Instruction(name) == [name |-> name, summary |-> None, forms |-> <<>>, xml |-> None]

\* InstructionForm(name)
InstructionForm(name) ==
    [name |-> name, gas_name |-> None, go_name |-> None, mmx_mode |-> None,
     xmm_mode |-> None, operands |-> <<>>, implicit_inputs |-> {},
     implicit_outputs |-> {}, isa_extensions |-> <<>>, encodings |-> <<>>,
     xml |-> None]

\* Operand(type)
Operand(type) == [type |-> type, is_input |-> FALSE, is_output |-> FALSE]

\* the values of Operand.type that the class documents as registers
RegisterTypes ==
    {"al", "ax", "eax", "rax", "cl", "xmm0", "r8", "r8l", "r16", "r16l", "r32", "r32l",
     "r64", "mm", "xmm", "ymm", "zmm"}

\* the values of Operand.type that the class documents as memory operands
MemoryTypes == {"m", "m8", "m16", "m32", "m64", "m80", "m128", "m256", "m512"}

\* the other values of Operand.type that the class documents: constants, offsets
\* and immediates
OtherTypes == {"1", "3", "rel8", "rel32", "imm8", "imm16", "imm32", "imm64"}

\* Operand.is_variable
is_variable(operand) == operand.is_input \/ operand.is_output

\* Operand.is_register
is_register(operand) ==
    operand.type \in {"al", "cl", "ax", "eax", "rax", "xmm0", "r8", "r16", "r32",
                      "r64", "r8l", "r16l", "r32l", "mm", "xmm", "ymm"}

\* Operand.is_memory
is_memory(operand) ==
    operand.type \in {"m", "m8", "m16", "m32", "m64", "m80", "m128", "m256", "m512"}

\* ISAExtension(name)
ISAExtension(name) == [name |-> name]

\* Encoding()
Encoding == [components |-> <<>>, xml |-> <<>>]

\* Prefix(byte, is_mandatory)
Prefix(byte, is_mandatory) ==
    [cls |-> "Prefix", byte |-> byte, is_mandatory |-> is_mandatory]

\* REX(is_mandatory)
REX(is_mandatory) ==
    [cls |-> "REX", is_mandatory |-> is_mandatory,
     W |-> None, R |-> None, X |-> None, B |-> None]

\* VEX()
VEX ==
    [cls |-> "VEX", mmmmm |-> None, pp |-> None, W |-> None, L |-> None,
     R |-> None, X |-> None, B |-> None, vvvv |-> None]

\* Opcode(byte)
Opcode(byte) == [cls |-> "Opcode", byte |-> byte, addend |-> None]

\* ModRM()
ModRM == [cls |-> "ModRM", mode |-> None, rm |-> None, reg |-> None]

\* ImmediateByte(), ImmediateWord(), ImmediateDWord(), ImmediateQWord()
ImmediateByte == [cls |-> "ImmediateByte", byte |-> None]
ImmediateWord == [cls |-> "ImmediateWord", word |-> None]
ImmediateDWord == [cls |-> "ImmediateDWord", dword |-> None]
ImmediateQWord == [cls |-> "ImmediateQWord", qword |-> None]

\* CodeOffset8(), CodeOffset32(), DataOffset32(), DataOffset64()
CodeOffset8 == [cls |-> "CodeOffset8", offset |-> None]
CodeOffset32 == [cls |-> "CodeOffset32", offset |-> None]
DataOffset32 == [cls |-> "DataOffset32", offset |-> None]
DataOffset64 == [cls |-> "DataOffset64", offset |-> None]

\* a variable that holds no object (yet)
Unbound == [cls |-> "unbound"]

----------------------------------------------------------------------------
(* The expressions read_instruction_set evaluates on a component node.     *)
(* attrib is the node's attribute dict: a function on the names present.   *)

\* key in attrib
has(attrib, key) == key \in DOMAIN attrib

\* a literal bit: None for "ignored", int(value) otherwise
bit(value) ==
    IF value = S_ignored THEN Ok(None)
    ELSE LET n == int(value, 10) IN IF n.ok THEN Ok(IntV(n.val)) ELSE Raise

\* instruction_form.operands[int(value)]
operand_number(operands, value) ==
    LET n == int(value, 10) IN IF n.ok THEN getitem(operands, n.val) ELSE Raise

\* {"true": True, "false": False}[attrib["mandatory"]]
read_mandatory(attrib) ==
    IF has(attrib, "mandatory") THEN TrueFalse(attrib["mandatory"]) ELSE Raise

\* rex.W / vex.W / vex.L: the attribute must be there, and is a literal bit
read_W(attrib, key) == IF has(attrib, key) THEN bit(attrib[key]) ELSE Raise

\* rex.R
rex_R(attrib, operands) ==
    IF has(attrib, "R")
    THEN IF has(attrib, "R-operand-number") THEN Raise ELSE bit(attrib["R"])
    ELSE IF ~has(attrib, "R-operand-number") THEN Raise
         ELSE operand_number(operands, attrib["R-operand-number"])

\* rex.B without the check, in the branch of a literal B, that there is no
\* BX-operand-number
rex_B_unchecked(attrib, operands) ==
    IF has(attrib, "B")
    THEN IF has(attrib, "B-operand-number") THEN Raise ELSE bit(attrib["B"])
    ELSE IF has(attrib, "B-operand-number")
    THEN IF has(attrib, "BX-operand-number") THEN Raise
         ELSE operand_number(operands, attrib["B-operand-number"])
    ELSE IF ~has(attrib, "BX-operand-number") \/ has(attrib, "X") THEN Raise
         ELSE operand_number(operands, attrib["BX-operand-number"])

\* rex.B
rex_B(attrib, operands) ==
    IF has(attrib, "B")
    THEN IF has(attrib, "B-operand-number") \/ has(attrib, "BX-operand-number")
         THEN Raise
         ELSE bit(attrib["B"])
    ELSE IF has(attrib, "B-operand-number")
    THEN IF has(attrib, "BX-operand-number") THEN Raise
         ELSE operand_number(operands, attrib["B-operand-number"])
    ELSE IF ~has(attrib, "BX-operand-number") \/ has(attrib, "X") THEN Raise
         ELSE operand_number(operands, attrib["BX-operand-number"])

\* rex.X and vex.X
read_X(attrib, operands) ==
    IF has(attrib, "X")
    THEN IF has(attrib, "BX-operand-number") THEN Raise ELSE bit(attrib["X"])
    ELSE IF ~has(attrib, "BX-operand-number") THEN Raise
         ELSE operand_number(operands, attrib["BX-operand-number"])

\* the REX branch
read_REX(attrib, operands) ==
    LET m == read_mandatory(attrib)
        w == read_W(attrib, "W")
        r == rex_R(attrib, operands)
        b == rex_B(attrib, operands)
        x == read_X(attrib, operands)
    IN  IF m.ok /\ w.ok /\ r.ok /\ b.ok /\ x.ok
        THEN Ok([REX(m.val) EXCEPT !.W = w.val, !.R = r.val, !.B = b.val, !.X = x.val])
        ELSE Raise

\* int(rex.R), int(rex.B): rex is whatever REX object the loop built last;
\* a NameError when there is none, a TypeError when the bit is None or an Operand
int_of_rex(rex_object, field) ==
    IF rex_object = Unbound THEN Raise
    ELSE LET v == IF field = "R" THEN rex_object.R ELSE rex_object.B
         IN  IF v.kind = "int" THEN Ok(IntV(v.val)) ELSE Raise

\* a literal vex.R or vex.B
vex_bit(value, rex_object, field) ==
    IF value = S_ignored THEN Ok(None) ELSE int_of_rex(rex_object, field)

\* vex.R
vex_R(attrib, operands, rex_object) ==
    IF has(attrib, "R")
    THEN IF has(attrib, "R-operand-number") THEN Raise
         ELSE vex_bit(attrib["R"], rex_object, "R")
    ELSE IF ~has(attrib, "R-operand-number") THEN Raise
         ELSE operand_number(operands, attrib["R-operand-number"])

\* vex.B
vex_B(attrib, operands, rex_object) ==
    IF has(attrib, "B")
    THEN IF has(attrib, "B-operand-number") \/ has(attrib, "BX-operand-number")
         THEN Raise
         ELSE vex_bit(attrib["B"], rex_object, "B")
    ELSE IF has(attrib, "B-operand-number")
    THEN IF has(attrib, "BX-operand-number") THEN Raise
         ELSE operand_number(operands, attrib["B-operand-number"])
    ELSE IF ~has(attrib, "BX-operand-number") \/ has(attrib, "X") THEN Raise
         ELSE operand_number(operands, attrib["BX-operand-number"])

\* int(attrib[key], 2): vex.mmmmm and vex.pp
read_binary(attrib, key) ==
    IF ~has(attrib, key) THEN Raise
    ELSE LET n == int(attrib[key], 2) IN IF n.ok THEN Ok(IntV(n.val)) ELSE Raise

\* vex.vvvv
vex_vvvv(attrib, operands) ==
    IF has(attrib, "vvvv")
    THEN IF has(attrib, "vvvv-operand-number") \/ attrib["vvvv"] # <<"1", "1", "1", "1">>
         THEN Raise
         ELSE read_binary(attrib, "vvvv")
    ELSE IF ~has(attrib, "vvvv-operand-number") THEN Raise
         ELSE operand_number(operands, attrib["vvvv-operand-number"])

\* the VEX branch
read_VEX(attrib, operands, rex_object) ==
    LET w == read_W(attrib, "W")
        l == read_W(attrib, "L")
        m == read_binary(attrib, "m-mmmm")
        p == read_binary(attrib, "pp")
        r == vex_R(attrib, operands, rex_object)
        b == vex_B(attrib, operands, rex_object)
        x == read_X(attrib, operands)
        v == vex_vvvv(attrib, operands)
    IN  IF w.ok /\ l.ok /\ m.ok /\ p.ok /\ r.ok /\ b.ok /\ x.ok /\ v.ok
        THEN Ok([VEX EXCEPT !.W = w.val, !.L = l.val, !.mmmmm = m.val, !.pp = p.val,
                            !.R = r.val, !.B = b.val, !.X = x.val, !.vvvv = v.val])
        ELSE Raise

\* the Prefix branch without its assertion on byte
read_Prefix_unchecked(attrib) ==
    LET m == read_mandatory(attrib)
        byte == IF has(attrib, "byte") THEN int(attrib["byte"], 16) ELSE Raise
    IN  IF m.ok /\ byte.ok THEN Ok(Prefix(byte.val, m.val)) ELSE Raise

\* the Prefix branch
read_Prefix(attrib) ==
    LET m == read_mandatory(attrib)
        byte == IF has(attrib, "byte") THEN int(attrib["byte"], 16) ELSE Raise
    IN  IF m.ok /\ byte.ok /\ byte.val \in {102, 242, 243}
        THEN Ok(Prefix(byte.val, m.val))
        ELSE Raise

\* the Opcode branch
read_Opcode(attrib, operands) ==
    LET byte == IF has(attrib, "byte") THEN int(attrib["byte"], 16) ELSE Raise
        addend == IF has(attrib, "addend-operand-number")
                  THEN operand_number(operands, attrib["addend-operand-number"])
                  ELSE Ok(None)
    IN  IF byte.ok /\ addend.ok
        THEN Ok([Opcode(byte.val) EXCEPT !.addend = addend.val])
        ELSE Raise

\* modrm.mode
modrm_mode(attrib, operands) ==
    IF has(attrib, "mode")
    THEN LET n == int(attrib["mode"], 2)
         IN  IF n.ok /\ n.val = 3 THEN Ok(IntV(n.val)) ELSE Raise
    ELSE IF ~has(attrib, "mode-operand-number") \/ ~has(attrib, "rm-operand-number")
    THEN Raise
    ELSE IF attrib["mode-operand-number"] # attrib["rm-operand-number"] THEN Raise
    ELSE operand_number(operands, attrib["mode-operand-number"])

\* modrm.reg
modrm_reg(attrib, operands) ==
    IF has(attrib, "reg")
    THEN LET n == int(attrib["reg"], 10)
         IN  IF n.ok /\ 0 <= n.val /\ n.val <= 7 THEN Ok(IntV(n.val)) ELSE Raise
    ELSE IF ~has(attrib, "reg-operand-number") THEN Raise
         ELSE operand_number(operands, attrib["reg-operand-number"])

\* modrm.rm
modrm_rm(attrib, operands) ==
    IF ~has(attrib, "rm-operand-number") THEN Raise
    ELSE operand_number(operands, attrib["rm-operand-number"])

\* the ModRM branch
read_ModRM(attrib, operands) ==
    LET mode == modrm_mode(attrib, operands)
        reg == modrm_reg(attrib, operands)
        rm == modrm_rm(attrib, operands)
    IN  IF mode.ok /\ reg.ok /\ rm.ok
        THEN Ok([ModRM EXCEPT !.mode = mode.val, !.reg = reg.val, !.rm = rm.val])
        ELSE Raise

\* int(attrib["size"])
read_size(attrib) == IF has(attrib, "size") THEN int(attrib["size"], 10) ELSE Raise

\* instruction_form.operands[int(attrib["operand-number"])]
read_operand(attrib, operands) ==
    IF has(attrib, "operand-number")
    THEN operand_number(operands, attrib["operand-number"])
    ELSE Raise

\* the Immediate branch without the check of the size: any other size is a qword
read_Immediate_unchecked(attrib, operands) ==
    LET immediate_size == read_size(attrib)
        o == read_operand(attrib, operands)
    IN  IF ~immediate_size.ok \/ ~o.ok
        THEN Raise
        ELSE IF immediate_size.val = 1 THEN Ok([ImmediateByte EXCEPT !.byte = o.val])
        ELSE IF immediate_size.val = 2 THEN Ok([ImmediateWord EXCEPT !.word = o.val])
        ELSE IF immediate_size.val = 4 THEN Ok([ImmediateDWord EXCEPT !.dword = o.val])
        ELSE Ok([ImmediateQWord EXCEPT !.qword = o.val])

\* the Immediate branch
read_Immediate(attrib, operands) ==
    LET immediate_size == read_size(attrib)
        o == read_operand(attrib, operands)
    IN  IF ~immediate_size.ok \/ immediate_size.val \notin {1, 2, 4, 8} \/ ~o.ok
        THEN Raise
        ELSE IF immediate_size.val = 1 THEN Ok([ImmediateByte EXCEPT !.byte = o.val])
        ELSE IF immediate_size.val = 2 THEN Ok([ImmediateWord EXCEPT !.word = o.val])
        ELSE IF immediate_size.val = 4 THEN Ok([ImmediateDWord EXCEPT !.dword = o.val])
        ELSE Ok([ImmediateQWord EXCEPT !.qword = o.val])

\* the CodeOffset branch
read_CodeOffset(attrib, operands) ==
    LET offset_size == read_size(attrib)
        o == read_operand(attrib, operands)
    IN  IF ~offset_size.ok \/ offset_size.val \notin {1, 4} \/ ~o.ok
        THEN Raise
        ELSE IF offset_size.val = 1 THEN Ok([CodeOffset8 EXCEPT !.offset = o.val])
        ELSE Ok([CodeOffset32 EXCEPT !.offset = o.val])

\* the DataOffset branch
read_DataOffset(attrib, operands) ==
    LET offset_size == read_size(attrib)
        o == read_operand(attrib, operands)
    IN  IF ~offset_size.ok \/ offset_size.val \notin {4, 8} \/ ~o.ok
        THEN Raise
        ELSE IF offset_size.val = 4 THEN Ok([DataOffset32 EXCEPT !.offset = o.val])
        ELSE Ok([DataOffset64 EXCEPT !.offset = o.val])

----------------------------------------------------------------------------
(* The expressions read_instruction_set evaluates on a form node.          *)

\* attrib.get(key, ""): the empty string when the attribute is absent
get_empty(attrib, key) == IF has(attrib, key) THEN Str(attrib[key]) ELSE Str("")

\* attrib.get(key): None when the attribute is absent
get(attrib, key) == IF has(attrib, key) THEN Str(attrib[key]) ELSE None

\* one node of findall("Operands/Operand")
read_Operand(xml_operand) ==
    LET input == TrueFalse(IF has(xml_operand.attrib, "input")
                           THEN xml_operand.attrib["input"] ELSE S_false)
        output == TrueFalse(IF has(xml_operand.attrib, "output")
                            THEN xml_operand.attrib["output"] ELSE S_false)
    IN  IF has(xml_operand.attrib, "type") /\ input.ok /\ output.ok
        THEN Ok([Operand(xml_operand.attrib["type"])
                    EXCEPT !.is_input = input.val, !.is_output = output.val])
        ELSE Raise

\* the ids of the implicit operands whose attribute key is "true"
implicit_ids(nodes, key) ==
    {nodes[i].attrib["id"] : i \in {j \in DOMAIN nodes : nodes[j].attrib[key] = S_true}}

\* the implicit operand nodes can be read: input and output are there, and id where used
implicit_ok(nodes) ==
    \A i \in DOMAIN nodes :
        /\ has(nodes[i].attrib, "input") /\ has(nodes[i].attrib, "output")
        /\ (nodes[i].attrib["input"] = S_true \/ nodes[i].attrib["output"] = S_true)
               => has(nodes[i].attrib, "id")

\* the body of the loop over the form nodes, up to the loop over the encodings
read_InstructionForm(name, xml_instruction_form) ==
    LET attrib == xml_instruction_form.attrib
        xml_operands == xml_instruction_form.operands
        xml_implicit == xml_instruction_form.implicit_operands
        xml_isa == xml_instruction_form.isa_extensions
        operands == [i \in DOMAIN xml_operands |-> read_Operand(xml_operands[i])]
    IN  IF /\ has(attrib, "gas-name")
           /\ \A i \in DOMAIN operands : operands[i].ok
           /\ implicit_ok(xml_implicit)
           /\ \A i \in DOMAIN xml_isa : has(xml_isa[i].attrib, "id")
        THEN Ok([InstructionForm(name) EXCEPT
                    !.gas_name = Str(attrib["gas-name"]),
                    !.go_name = get(attrib, "go-name"),
                    !.mmx_mode = get(attrib, "mmx-mode"),
                    !.xmm_mode = get(attrib, "xmm-mode"),
                    !.operands = [i \in DOMAIN operands |-> operands[i].val],
                    !.implicit_inputs = implicit_ids(xml_implicit, "input"),
                    !.implicit_outputs = implicit_ids(xml_implicit, "output"),
                    !.isa_extensions =
                        [i \in DOMAIN xml_isa |-> ISAExtension(xml_isa[i].attrib["id"])]])
        ELSE Raise

----------------------------------------------------------------------------
(* The documents read: the nodes each action draws from.                   *)

\* an XML node
Node(tag, attrib) == [tag |-> tag, attrib |-> attrib]

\* the attribute dict with no attribute
NoAttrib == [key \in {} |-> <<>>]

\* attrib without the attributes keys
Without(attrib, keys) == [key \in DOMAIN attrib \ keys |-> attrib[key]]

\* the attribute key absent, or present with one of values
Optional(key, values) == {NoAttrib} \cup {key :> v : v \in values}

\* every union of a dict of A and a dict of B
Combine(A, B) == {a @@ b : a \in A, b \in B}

\* default with its attributes keys replaced by each of settings
Vary(default, keys, settings) == {c @@ Without(default, keys) : c \in settings}

\* str(n), for a small n
str(n) ==
    LET digit == <<"0", "1", "2", "3", "4", "5", "6", "7", "8", "9">>
    IN  IF n < 0 THEN <<"-", digit[1 - n]>> ELSE <<digit[n + 1]>>

\* values of an attribute that holds a bit
BitValues == {<<"0">>, <<"1">>, S_ignored, <<"2">>}

\* values of an attribute that holds an operand number
OperandNumbers == {str(n) : n \in -1..MaxOperands}

RexDefault ==
    "mandatory" :> S_true @@ "W" :> <<"0">> @@ "R" :> <<"0">> @@ "B" :> <<"0">>
        @@ "X" :> <<"0">>

\* the settings of the attributes that decide the B and X bits
SettingsBX ==
    Combine(Combine(Optional("B", BitValues), Optional("B-operand-number", OperandNumbers)),
            Combine(Optional("BX-operand-number", OperandNumbers), Optional("X", BitValues)))

\* the settings of the attributes that decide the R bit
SettingsR == Combine(Optional("R", BitValues), Optional("R-operand-number", OperandNumbers))

\* REX nodes that set R and B alike
LeadingREX ==
    {Node("REX", ("R" :> v @@ "B" :> v) @@ Without(RexDefault, {"R", "B"})) : v \in BitValues}
    \cup {Node("REX", ("R-operand-number" :> <<"0">> @@ "BX-operand-number" :> <<"0">>)
                          @@ Without(RexDefault, {"R", "B", "X"}))}

\* REX nodes: the default with one bit's attributes varied
XmlREX ==
    LeadingREX \cup
    {Node("REX", a) :
        a \in Vary(RexDefault, {"mandatory"}, Optional("mandatory", {S_true, S_false}))
            \cup Vary(RexDefault, {"W"}, Optional("W", BitValues))
            \cup Vary(RexDefault, {"R", "R-operand-number"}, SettingsR)
            \cup Vary(RexDefault, {"B", "B-operand-number", "BX-operand-number", "X"},
                      SettingsBX)}

VexDefault ==
    "W" :> <<"0">> @@ "L" :> <<"0">> @@ "m-mmmm" :> <<"0", "0", "0", "0", "1">>
        @@ "pp" :> <<"0", "0">> @@ "R" :> S_ignored @@ "B" :> S_ignored
        @@ "X" :> S_ignored @@ "vvvv" :> <<"1", "1", "1", "1">>

\* VEX nodes: the default with one field's attributes varied
XmlVEX ==
    {Node("VEX", a) :
        a \in Vary(VexDefault, {"W"}, Optional("W", BitValues))
            \cup Vary(VexDefault, {"L"}, Optional("L", BitValues))
            \cup Vary(VexDefault, {"m-mmmm"},
                      Optional("m-mmmm", {<<"0", "0", "0", "0", "1">>,
                                          <<"0", "0", "0", "1", "1">>,
                                          <<"0", "0", "1", "0", "0">>}))
            \cup Vary(VexDefault, {"pp"},
                      Optional("pp", {<<"0", "0">>, <<"1", "1">>, <<"1", "0", "0">>}))
            \cup Vary(VexDefault, {"R", "R-operand-number"}, SettingsR)
            \cup Vary(VexDefault, {"B", "B-operand-number", "BX-operand-number", "X"},
                      SettingsBX)
            \cup Vary(VexDefault, {"vvvv", "vvvv-operand-number"},
                      Combine(Optional("vvvv", {<<"1", "1", "1", "1">>, <<"0", "0", "0", "0">>}),
                              Optional("vvvv-operand-number", OperandNumbers)))}

PrefixDefault == "mandatory" :> S_false @@ "byte" :> <<"6", "6">>

XmlPrefix ==
    {Node("Prefix", a) :
        a \in Vary(PrefixDefault, {"mandatory"}, Optional("mandatory", {S_true, S_false}))
            \cup Vary(PrefixDefault, {"byte"},
                      Optional("byte", {<<"6", "6">>, <<"F", "2">>, <<"F", "3">>, <<"6", "7">>}))}

OpcodeDefault == "byte" :> <<"9", "0">>

XmlOpcode ==
    {Node("Opcode", a) :
        a \in Vary(OpcodeDefault, {"byte"},
                   Optional("byte", {<<"9", "0">>, <<"F", "F">>, <<"1", "0", "0">>, <<"-", "1">>}))
            \cup Vary(OpcodeDefault, {"addend-operand-number"},
                      Optional("addend-operand-number", OperandNumbers))}

ModRMDefault ==
    "mode" :> <<"1", "1">> @@ "reg" :> <<"0">> @@ "rm-operand-number" :> <<"0">>

\* ModRM nodes; an operand number may be written with a leading zero
XmlModRM ==
    {Node("ModRM", a) :
        a \in Vary(ModRMDefault, {"mode", "mode-operand-number", "rm-operand-number"},
                   Combine(Optional("mode", {<<"1", "1">>, <<"0", "0">>}),
                           Combine(Optional("mode-operand-number",
                                            OperandNumbers \cup {<<"0", "1">>}),
                                   Optional("rm-operand-number", OperandNumbers))))
            \cup Vary(ModRMDefault, {"reg", "reg-operand-number"},
                      Combine(Optional("reg", {<<"0">>, <<"7">>, <<"8">>}),
                              Optional("reg-operand-number", OperandNumbers)))}

\* the settings of a size and an operand number
SettingsSize(sizes) ==
    Combine(Optional("size", sizes), Optional("operand-number", OperandNumbers))

XmlImmediate ==
    {Node("Immediate", a) :
        a \in SettingsSize({<<"1">>, <<"2">>, <<"4">>, <<"8">>, <<"3">>})}

XmlCodeOffset ==
    {Node("CodeOffset", a) : a \in SettingsSize({<<"1">>, <<"4">>, <<"2">>})}

XmlDataOffset ==
    {Node("DataOffset", a) : a \in SettingsSize({<<"4">>, <<"8">>, <<"1">>})}

\* component nodes with a tag the loader does not know
XmlUnknown == {Node("EVEX", "W" :> <<"0">>)}

\* the nodes that may come before the last component node of the document
LeadingComponents ==
    LeadingREX \cup XmlUnknown \cup {Node("Opcode", OpcodeDefault)}

\* operand nodes
XmlOperand ==
    {Node("Operand", "type" :> "r32" @@ "input" :> S_true @@ "output" :> S_true),
     Node("Operand", "type" :> "m32" @@ "input" :> S_true)}

\* the sequences over S of length at most n
SeqsUpTo(S, n) == UNION {[1..k -> S] : k \in 0..n}

\* the operand nodes of a form: the sequences of XmlOperand, one 512-bit register
\* that is read and written, one operand with no input or output attribute, one
\* with an input attribute that is neither "true" nor "false"
XmlOperands ==
    SeqsUpTo(XmlOperand, MaxOperands)
    \cup {<<Node("Operand", "type" :> "zmm" @@ "input" :> S_true @@ "output" :> S_true)>>,
          <<Node("Operand", "type" :> "imm8")>>,
          <<Node("Operand", "type" :> "r32" @@ "input" :> <<"y", "e", "s">>)>>}

\* form nodes, with the nodes findall gives for them
FormNode(attrib, operands) ==
    [tag |-> "InstructionForm", attrib |-> attrib, operands |-> operands,
     implicit_operands |->
         <<Node("ImplicitOperand",
                "id" :> "rax" @@ "input" :> S_true @@ "output" :> S_false)>>,
     isa_extensions |-> <<Node("Extension", "id" :> "SSE2")>>]

FormDefault == "gas-name" :> "addl" @@ "go-name" :> "ADDL"

\* a form node with one register operand
PlainForm(attrib) ==
    FormNode(attrib, <<Node("Operand", "type" :> "r32" @@ "input" :> S_true
                                       @@ "output" :> S_true)>>)

\* the form nodes an instruction that follows another one may have
XmlPlainForm == {PlainForm(FormDefault), PlainForm(Without(FormDefault, {"gas-name"}))}

\* form nodes: the default attributes with every sequence of operands, and one
\* register operand with one of the attributes varied
XmlInstructionForm ==
    {FormNode(FormDefault, o) : o \in XmlOperands}
    \cup {PlainForm(a) :
            a \in Vary(FormDefault, {"gas-name"}, Optional("gas-name", {"addl"}))
                \cup Vary(FormDefault, {"go-name"}, Optional("go-name", {"ADDL"}))
                \cup Vary(FormDefault, {"mmx-mode"}, Optional("mmx-mode", {"FPU", "MMX", "SSE"}))
                \cup Vary(FormDefault, {"xmm-mode"}, Optional("xmm-mode", {"SSE", "AVX", "MMX"}))}

\* instruction nodes
XmlInstruction ==
    {Node("Instruction", "name" :> "ADD" @@ "summary" :> "Add"),
     Node("Instruction", "name" :> "ADD"),
     Node("Form", "name" :> "ADD" @@ "summary" :> "Add")}

\* the instruction nodes that may follow another one
XmlLaterInstruction ==
    XmlInstruction \cup {Node("Instruction", "name" :> "SUB" @@ "summary" :> "Subtract")}

\* root nodes
XmlInstructionSet ==
    {Node("InstructionSet", "name" :> "x86-64"),
     Node("InstructionSet", "name" :> "x86"),
     Node("Instructions", "name" :> "x86-64")}

----------------------------------------------------------------------------
(* What has been read of the document so far.                              *)

RECURSIVE Flatten(_)
Flatten(seqs) == IF seqs = <<>> THEN <<>> ELSE Head(seqs) \o Flatten(Tail(seqs))

\* the forms of instructions, in document order
FormsOf(instructions) ==
    Flatten([i \in DOMAIN instructions |-> instructions[i].forms])

\* the encodings of forms, in document order
EncodingsOf(forms) == Flatten([i \in DOMAIN forms |-> forms[i].encodings])

\* the component nodes of encodings, in document order
NodesOf(encodings) == Flatten([i \in DOMAIN encodings |-> encodings[i].xml])

\* the encodings read so far, the one being built included
EncodingsRead ==
    EncodingsOf(FormsOf(instruction_set))
    \o (IF pc \in {"forms", "encodings", "components"}
        THEN EncodingsOf(instruction.forms) ELSE <<>>)
    \o (IF pc \in {"encodings", "components"} THEN instruction_form.encodings ELSE <<>>)
    \o (IF pc = "components" THEN <<encoding>> ELSE <<>>)

\* the component nodes read so far
NodesRead == NodesOf(EncodingsRead)

\* the document may go on with a component node: it holds at most MaxComponents
\* component nodes, all but its last one of LeadingComponents
MayRead ==
    /\ pc = "components"
    /\ Len(NodesRead) < MaxComponents
    /\ \A i \in DOMAIN NodesRead : NodesRead[i] \in LeadingComponents

\* the nodes among nodes that may come next: a node that is not one of
\* LeadingComponents comes after at most MaxLeading nodes, in the first instruction
\* and in a form with the default attributes and operands of XmlOperand
Readable(nodes) ==
    IF /\ Len(NodesRead) <= MaxLeading
       /\ instruction_set = <<>>
       /\ instruction_form.xml.attrib = FormDefault
       /\ instruction_form.xml.operands \in SeqsUpTo(XmlOperand, MaxOperands)
    THEN nodes
    ELSE nodes \cap LeadingComponents

\* the document may go on with an instruction node: it holds at most
\* MaxInstructions of them, and all but its last one hold only form nodes of
\* XmlPlainForm and no component node
MayFollow ==
    /\ Len(instruction_set) < MaxInstructions
    /\ \A f \in DOMAIN FormsOf(instruction_set) :
           FormsOf(instruction_set)[f].xml \in XmlPlainForm
    /\ NodesOf(EncodingsOf(FormsOf(instruction_set))) = <<>>

----------------------------------------------------------------------------
(* The loader, node by node.                                               *)

Init ==
    /\ pc = "start"
    /\ instruction_set = <<>>
    /\ instruction = Unbound
    /\ instruction_form = Unbound
    /\ encoding = Unbound
    /\ rex = Unbound
    /\ xml_component = Unbound
    /\ document = <<>>
    /\ xml_form = Unbound
    /\ self = Unbound
    /\ loaded = Unbound
    /\ first = None
    /\ call = Unbound

\* an exception ends the loops: the instructions finished so far are returned
Fail_returns(xml) ==
    /\ pc' = "returned"
    /\ instruction_set' = instruction_set
    /\ instruction' = Unbound
    /\ instruction_form' = Unbound
    /\ encoding' = Unbound
    /\ rex' = Unbound
    /\ xml_component' = xml

\* an exception leaves read_instruction_set: nothing is returned
Fail(xml) ==
    /\ pc' = "failed"
    /\ instruction_set' = <<>>
    /\ instruction' = Unbound
    /\ instruction_form' = Unbound
    /\ encoding' = Unbound
    /\ rex' = Unbound
    /\ xml_component' = xml

\* the root node is parsed and checked
ParseRoot ==
    /\ pc = "start"
    /\ \E xml_instruction_set \in XmlInstructionSet :
        IF /\ xml_instruction_set.tag = "InstructionSet"
           /\ has(xml_instruction_set.attrib, "name")
           /\ xml_instruction_set.attrib["name"] = "x86-64"
        THEN /\ pc' = "instructions"
             /\ instruction_set' = <<>>
             /\ UNCHANGED <<instruction, instruction_form, encoding, rex, xml_component>>
        ELSE Fail(Unbound)
    /\ UNCHANGED <<document, xml_form, object>>

\* the loop over the instruction nodes takes the next one
BeginInstruction ==
    /\ pc = "instructions"
    /\ MayFollow
    /\ \E xml_instruction \in
           (IF instruction_set = <<>> THEN XmlInstruction ELSE XmlLaterInstruction) :
        /\ document' = Append(document, xml_instruction)
        /\ IF /\ xml_instruction.tag = "Instruction"
              /\ has(xml_instruction.attrib, "name")
              /\ has(xml_instruction.attrib, "summary")
           THEN /\ instruction' = [Instruction(xml_instruction.attrib["name"])
                                      EXCEPT !.summary = Str(xml_instruction.attrib["summary"]),
                                             !.xml = xml_instruction]
                /\ pc' = "forms"
                /\ UNCHANGED <<instruction_set, instruction_form, encoding, rex, xml_component>>
           ELSE Fail(Unbound)
    /\ UNCHANGED <<xml_form, object>>

\* the loop over the form nodes takes the next one
BeginForm ==
    /\ pc = "forms"
    /\ Len(instruction.forms) < MaxForms
    /\ \E xml \in
           (IF instruction_set = <<>> THEN XmlInstructionForm ELSE XmlPlainForm) :
        /\ xml_form' = xml
        /\ LET form == read_InstructionForm(instruction.name, xml)
           IN  IF form.ok
               THEN /\ instruction_form' = [form.val EXCEPT !.xml = xml]
                    /\ pc' = "encodings"
                    /\ UNCHANGED <<instruction_set, instruction, encoding, rex, xml_component>>
               ELSE Fail(Unbound)
    /\ UNCHANGED <<document, object>>

\* the loop over the encoding nodes takes the next one
BeginEncoding ==
    /\ pc = "encodings"
    /\ Len(instruction_form.encodings) < MaxEncodings
    /\ encoding' = Encoding
    /\ pc' = "components"
    /\ UNCHANGED <<instruction_set, instruction, instruction_form, rex, xml_component>>
    /\ UNCHANGED <<document, xml_form, object>>

\* a component node was read: its component is appended, or the load fails
Append_component(xml, component) ==
    IF component.ok
    THEN /\ encoding' = [encoding EXCEPT !.components = Append(@, component.val),
                                         !.xml = Append(@, xml)]
         /\ rex' = IF xml.tag = "REX" THEN component.val ELSE rex
         /\ xml_component' = xml
         /\ UNCHANGED <<pc, instruction_set, instruction, instruction_form>>
    ELSE Fail(xml)

ReadPrefix ==
    /\ MayRead
    /\ \E xml \in Readable(XmlPrefix) :
        Append_component(xml, read_Prefix(xml.attrib))
    /\ UNCHANGED <<document, xml_form, object>>

ReadREX ==
    /\ MayRead
    /\ \E xml \in Readable(XmlREX) :
        Append_component(xml, read_REX(xml.attrib, instruction_form.operands))
    /\ UNCHANGED <<document, xml_form, object>>

ReadVEX ==
    /\ MayRead
    /\ \E xml \in Readable(XmlVEX) :
        Append_component(xml, read_VEX(xml.attrib, instruction_form.operands, rex))
    /\ UNCHANGED <<document, xml_form, object>>

ReadOpcode ==
    /\ MayRead
    /\ \E xml \in Readable(XmlOpcode) :
        Append_component(xml, read_Opcode(xml.attrib, instruction_form.operands))
    /\ UNCHANGED <<document, xml_form, object>>

ReadModRM ==
    /\ MayRead
    /\ \E xml \in Readable(XmlModRM) :
        Append_component(xml, read_ModRM(xml.attrib, instruction_form.operands))
    /\ UNCHANGED <<document, xml_form, object>>

ReadImmediate ==
    /\ MayRead
    /\ \E xml \in Readable(XmlImmediate) :
        Append_component(xml, read_Immediate(xml.attrib, instruction_form.operands))
    /\ UNCHANGED <<document, xml_form, object>>

ReadCodeOffset ==
    /\ MayRead
    /\ \E xml \in Readable(XmlCodeOffset) :
        Append_component(xml, read_CodeOffset(xml.attrib, instruction_form.operands))
    /\ UNCHANGED <<document, xml_form, object>>

ReadDataOffset ==
    /\ MayRead
    /\ \E xml \in Readable(XmlDataOffset) :
        Append_component(xml, read_DataOffset(xml.attrib, instruction_form.operands))
    /\ UNCHANGED <<document, xml_form, object>>

\* a node with another tag raises
ReadUnknown_raises ==
    /\ MayRead
    /\ \E xml \in Readable(XmlUnknown) : Fail(xml)
    /\ UNCHANGED <<document, xml_form, object>>

\* a node with another tag is reported and skipped
ReadUnknown ==
    /\ MayRead
    /\ \E xml \in Readable(XmlUnknown) :
        /\ encoding' = [encoding EXCEPT !.xml = Append(@, xml)]
        /\ xml_component' = xml
    /\ UNCHANGED <<pc, instruction_set, instruction, instruction_form, rex>>
    /\ UNCHANGED <<document, xml_form, object>>

\* the encoding node has no more component nodes
EndEncoding ==
    /\ pc = "components"
    /\ instruction_form' =
           [instruction_form EXCEPT !.encodings = Append(@, encoding)]
    /\ pc' = "encodings"
    /\ UNCHANGED <<instruction_set, instruction, encoding, rex, xml_component>>
    /\ UNCHANGED <<document, xml_form, object>>

\* the form node has no more encoding nodes
EndForm ==
    /\ pc = "encodings"
    /\ instruction' = [instruction EXCEPT !.forms = Append(@, instruction_form)]
    /\ pc' = "forms"
    /\ UNCHANGED <<instruction_set, instruction_form, encoding, rex, xml_component>>
    /\ UNCHANGED <<document, xml_form, object>>

\* the instruction node has no more form nodes
EndInstruction ==
    /\ pc = "forms"
    /\ instruction_set' = Append(instruction_set, instruction)
    /\ pc' = "instructions"
    /\ UNCHANGED <<instruction, instruction_form, encoding, rex, xml_component>>
    /\ UNCHANGED <<document, xml_form, object>>

\* the root node has no more instruction nodes: return instruction_set
Return ==
    /\ pc = "instructions"
    /\ pc' = "returned"
    /\ UNCHANGED <<instruction_set, instruction, instruction_form, encoding, rex,
                   xml_component>>
    /\ UNCHANGED <<document, xml_form, object>>

Next ==
    \/ ParseRoot
    \/ BeginInstruction
    \/ BeginForm
    \/ BeginEncoding
    \/ ReadPrefix
    \/ ReadREX
    \/ ReadVEX
    \/ ReadOpcode
    \/ ReadModRM
    \/ ReadImmediate
    \/ ReadCodeOffset
    \/ ReadDataOffset
    \/ ReadUnknown
    \/ EndEncoding
    \/ EndForm
    \/ EndInstruction
    \/ Return

Spec == Init /\ [][Next]_vars

----------------------------------------------------------------------------
(* The methods of the objects of a loaded model: the properties of an      *)
(* Operand and set_ignored of a REX and of a VEX.  An object is taken as   *)
(* the loader built it, and then its methods are called in any order.      *)

\* REX.set_ignored that assigns its arguments to every bit
REX_set_every(obj, w, r, x, b) ==
    IF w \in {0, 1} /\ r \in {0, 1} /\ x \in {0, 1} /\ b \in {0, 1}
    THEN Ok([obj EXCEPT !.W = IntV(w), !.R = IntV(r), !.X = IntV(x), !.B = IntV(b)])
    ELSE Raise

\* REX.set_ignored(w, r, x, b): the object after the call, or the assertion error
REX_set_ignored(obj, w, r, x, b) ==
    IF w \in {0, 1} /\ r \in {0, 1} /\ x \in {0, 1} /\ b \in {0, 1}
    THEN Ok([obj EXCEPT !.W = IF @ = None THEN IntV(w) ELSE @,
                        !.R = IF @ = None THEN IntV(r) ELSE @,
                        !.X = IF @ = None THEN IntV(x) ELSE @,
                        !.B = IF @ = None THEN IntV(b) ELSE @])
    ELSE Raise

\* VEX.set_ignored that assigns each bit before it checks the next argument
VEX_set_unchecked(obj, w, l, r, x, b) ==
    IF w \in {0, 1} /\ l \in {0, 1} /\ r \in {0, 1} /\ x \in {0, 1}
    THEN Ok([obj EXCEPT !.W = IF @ = None THEN IntV(w) ELSE @,
                        !.L = IF @ = None THEN IntV(l) ELSE @,
                        !.R = IF @ = None THEN IntV(r) ELSE @,
                        !.X = IF @ = None THEN IntV(x) ELSE @,
                        !.B = IF @ = None THEN IntV(b) ELSE @])
    ELSE Raise

\* VEX.set_ignored(w, l, r, x, b): the object after the call, or the assertion error
VEX_set_ignored(obj, w, l, r, x, b) ==
    IF w \in {0, 1} /\ l \in {0, 1} /\ r \in {0, 1} /\ x \in {0, 1} /\ b \in {0, 1}
    THEN Ok([obj EXCEPT !.W = IF @ = None THEN IntV(w) ELSE @,
                        !.L = IF @ = None THEN IntV(l) ELSE @,
                        !.R = IF @ = None THEN IntV(r) ELSE @,
                        !.X = IF @ = None THEN IntV(x) ELSE @,
                        !.B = IF @ = None THEN IntV(b) ELSE @])
    ELSE Raise

\* values of an argument of set_ignored
ArgValues == {0, 1, 2}

\* the arguments of a call of set_ignored: at most one of them is not the default, 0
Arguments(keys) ==
    {a \in [keys -> ArgValues] : Cardinality({k \in keys : a[k] # 0}) <= 1}

\* the operands of the form of a component
TwoOperands == <<Operand("m32"), Operand("r32")>>

\* the Operand objects the loader builds for the documented types
OperandObjects ==
    {read_Operand(Node("Operand", ("type" :> t) @@ a)).val :
        t \in RegisterTypes \cup MemoryTypes \cup OtherTypes,
        a \in Combine(Optional("input", {S_true, S_false}), Optional("output", {S_true}))}

\* the REX objects the loader builds from the nodes of XmlREX
RexObjects ==
    {read_REX(xml.attrib, TwoOperands).val :
        xml \in {n \in XmlREX : read_REX(n.attrib, TwoOperands).ok}}

\* the VEX objects the loader builds from the nodes of XmlVEX
VexObjects ==
    LET rex_object == read_REX(RexDefault, TwoOperands).val
    IN  {read_VEX(xml.attrib, TwoOperands, rex_object).val :
            xml \in {n \in XmlVEX : read_VEX(n.attrib, TwoOperands, rex_object).ok}}

\* read_instruction_set has returned, and self is an object of its result
InitObject ==
    /\ pc = "returned"
    /\ instruction_set = <<>>
    /\ instruction = Unbound
    /\ instruction_form = Unbound
    /\ encoding = Unbound
    /\ rex = Unbound
    /\ xml_component = Unbound
    /\ document = <<>>
    /\ xml_form = Unbound
    /\ self \in OperandObjects \cup RexObjects \cup VexObjects
    /\ loaded = self
    /\ first = None
    /\ call = Unbound

\* self is an object of class cls
IsA(cls) == "cls" \in DOMAIN self /\ self.cls = cls

\* a call of set_ignored with the arguments args has ended with result
Called(args, result) ==
    /\ self' = IF result.ok THEN result.val ELSE self
    /\ first' = IF first = None /\ result.ok THEN args ELSE first
    /\ call' = [method |-> "set_ignored", args |-> args, raised |-> ~result.ok]
    /\ UNCHANGED <<loaded, loader>>

\* self.set_ignored(w, r, x, b) on a REX
SetIgnoredREX ==
    /\ IsA("REX")
    /\ \E args \in Arguments({"w", "r", "x", "b"}) :
        Called(args, REX_set_ignored(self, args.w, args.r, args.x, args.b))

\* self.set_ignored(w, l, r, x, b) on a VEX
SetIgnoredVEX ==
    /\ IsA("VEX")
    /\ \E args \in Arguments({"w", "l", "r", "x", "b"}) :
        Called(args, VEX_set_ignored(self, args.w, args.l, args.r, args.x, args.b))

\* self.is_variable, self.is_register or self.is_memory of an Operand is read
GetProperty ==
    /\ "type" \in DOMAIN self
    /\ \E method \in {"is_variable", "is_register", "is_memory"} :
        call' = [method |-> method,
                 value |-> CASE method = "is_variable" -> is_variable(self)
                             [] method = "is_register" -> is_register(self)
                             [] method = "is_memory" -> is_memory(self)]
    /\ UNCHANGED <<self, loaded, first, loader>>

NextObject ==
    \/ SetIgnoredREX
    \/ SetIgnoredVEX
    \/ GetProperty

SpecObject == InitObject /\ [][NextObject]_vars

----------------------------------------------------------------------------
(* The returned model, beside the document it was loaded from.             *)

\* the tags the loader knows
ComponentTags ==
    {"Prefix", "REX", "VEX", "Opcode", "ModRM", "Immediate", "CodeOffset", "DataOffset"}

\* the tag whose branch builds an object of class cls
TagOf(cls) ==
    CASE cls \in {"ImmediateByte", "ImmediateWord", "ImmediateDWord", "ImmediateQWord"}
             -> "Immediate"
      [] cls \in {"CodeOffset8", "CodeOffset32"} -> "CodeOffset"
      [] cls \in {"DataOffset32", "DataOffset64"} -> "DataOffset"
      [] OTHER -> cls

\* the nodes of xml whose tag the loader knows
Recognized(xml) == SelectSeq(xml, LAMBDA node : node.tag \in ComponentTags)

\* the forms of the model read_instruction_set has returned
ReturnedForms == IF pc = "returned" THEN FormsOf(instruction_set) ELSE <<>>

\* P(operands, node, component) for every component of the returned model, with
\* the operands of its form and the node it was read from
EveryComponent(P(_, _, _)) ==
    \A f \in DOMAIN ReturnedForms :
        \A e \in DOMAIN ReturnedForms[f].encodings :
            LET enc == ReturnedForms[f].encodings[e]
                nodes == Recognized(enc.xml)
            IN  \A i \in DOMAIN enc.components :
                    /\ i <= Len(nodes)
                    /\ P(ReturnedForms[f].operands, nodes[i], enc.components[i])

\* P(operands, node, component) for some component of the returned model
SomeComponent(P(_, _, _)) ==
    \E f \in DOMAIN ReturnedForms :
        \E e \in DOMAIN ReturnedForms[f].encodings :
            LET enc == ReturnedForms[f].encodings[e]
                nodes == Recognized(enc.xml)
            IN  \E i \in DOMAIN enc.components :
                    /\ i <= Len(nodes)
                    /\ P(ReturnedForms[f].operands, nodes[i], enc.components[i])

\* the attributes that name an operand position
OperandNumberKeys ==
    {"R-operand-number", "B-operand-number", "BX-operand-number", "vvvv-operand-number",
     "addend-operand-number", "mode-operand-number", "reg-operand-number",
     "rm-operand-number", "operand-number"}

\* the value of attribute key is the integer n
Names(attrib, key, n) ==
    has(attrib, key) /\ int(attrib[key], 10).ok /\ int(attrib[key], 10).val = n

----------------------------------------------------------------------------
(* C1: in a returned model every operand-position attribute of every       *)
(* component node is an integer in 0..len(operands)-1 of the owning form   *)
(* (a node with any other value, a negative one included, makes the load   *)
(* fail), and every operand reference is to an operand of the form.        *)
C1_OperandNumbersInRange ==
    EveryComponent(LAMBDA operands, node, component :
        \A key \in DOMAIN node.attrib \cap OperandNumberKeys :
            \E n \in 0..(Len(operands) - 1) : Names(node.attrib, key, n))

----------------------------------------------------------------------------
(* C2: in a returned model every field that is a literal or operand-linked *)
(* (REX R/B/X, VEX R/B/X/vvvv, ModRM mode and reg) was given by exactly    *)
(* one of its attributes: a node with both the literal and the operand     *)
(* number of a field, or with neither, makes the load fail.                *)
ExactlyOne(attrib, keys) == Cardinality(DOMAIN attrib \cap keys) = 1

C2_ExactlyOneResolutionPath ==
    EveryComponent(LAMBDA operands, node, component :
        /\ node.tag \in {"REX", "VEX"} =>
               /\ ExactlyOne(node.attrib, {"R", "R-operand-number"})
               /\ ExactlyOne(node.attrib, {"B", "B-operand-number", "BX-operand-number"})
               /\ ExactlyOne(node.attrib, {"X", "BX-operand-number"})
        /\ node.tag = "VEX" => ExactlyOne(node.attrib, {"vvvv", "vvvv-operand-number"})
        /\ node.tag = "ModRM" =>
               /\ ExactlyOne(node.attrib, {"mode", "mode-operand-number"})
               /\ ExactlyOne(node.attrib, {"reg", "reg-operand-number"}))

----------------------------------------------------------------------------
(* C3: in a returned model a VEX component whose node gives R (or B) as    *)
(* the literal "0" or "1" has that value as its R (B), whatever REX        *)
(* component was read before it.                                           *)
C3_VexLiteralIndependentOfRex ==
    EveryComponent(LAMBDA operands, node, component :
        node.tag = "VEX" =>
            /\ (has(node.attrib, "R") /\ node.attrib["R"] \in {<<"0">>, <<"1">>})
                   => component.R = IntV(int(node.attrib["R"], 10).val)
            /\ (has(node.attrib, "B") /\ node.attrib["B"] \in {<<"0">>, <<"1">>})
                   => component.B = IntV(int(node.attrib["B"], 10).val))

----------------------------------------------------------------------------
(* C4: in a returned model a ModRM component whose mode is operand-linked  *)
(* has the same operand as mode and as rm, and no ModRM node names one     *)
(* operand position in mode-operand-number and another in                  *)
(* rm-operand-number (such a node makes the load fail).                    *)
C4_ModeOperandIsRmOperand ==
    EveryComponent(LAMBDA operands, node, component :
        node.tag = "ModRM" =>
            /\ component.mode.kind = "ref" => component.mode = component.rm
            /\ (has(node.attrib, "mode-operand-number") /\ has(node.attrib, "rm-operand-number"))
                   => LET mode == int(node.attrib["mode-operand-number"], 10)
                          rm == int(node.attrib["rm-operand-number"], 10)
                      IN  ~(mode.ok /\ rm.ok /\ mode.val # rm.val))

----------------------------------------------------------------------------
(* C5: the components of an encoding are, one for one and in order, the    *)
(* nodes of the encoding node whose tag the loader knows (a node's         *)
(* component is of a class of the node's tag), and the load never fails on *)
(* a node with another tag.                                                *)
C5_RecognizedComponentsInOrder ==
    /\ \A e \in DOMAIN EncodingsRead :
           LET components == EncodingsRead[e].components
               nodes == Recognized(EncodingsRead[e].xml)
           IN  [i \in DOMAIN components |-> TagOf(components[i].cls)]
                   = [i \in DOMAIN nodes |-> nodes[i].tag]
    /\ (pc = "failed" /\ xml_component # Unbound) => xml_component.tag \in ComponentTags

\* a returned encoding read from a known node, an unknown one and a known one
C5_Witness ==
    \E f \in DOMAIN ReturnedForms :
        \E e \in DOMAIN ReturnedForms[f].encodings :
            LET enc == ReturnedForms[f].encodings[e]
            IN  /\ Len(enc.xml) = 3
                /\ enc.xml[1].tag = "Opcode"
                /\ enc.xml[2].tag \notin ComponentTags
                /\ enc.xml[3].tag = "REX"
                /\ Len(enc.components) = 2
                /\ enc.components[1].cls = "Opcode"
                /\ enc.components[2].cls = "REX"

----------------------------------------------------------------------------
(* C6: in a returned model a REX component read from a node with           *)
(* BX-operand-number has the same operand as B and as X, the one at the    *)
(* position the attribute names; and the node has no B, B-operand-number   *)
(* or X attribute (with one of them the load fails).                       *)
C6_CombinedBX ==
    EveryComponent(LAMBDA operands, node, component :
        (node.tag = "REX" /\ has(node.attrib, "BX-operand-number")) =>
            /\ ~has(node.attrib, "B")
            /\ ~has(node.attrib, "B-operand-number")
            /\ ~has(node.attrib, "X")
            /\ component.B = component.X
            /\ component.B.kind = "ref"
            /\ \A n \in 0..(Len(operands) - 1) :
                   Names(node.attrib, "BX-operand-number", n) => component.B = Ref(n))

\* operand 0 is memory, operand 1 a register, and REX.B and REX.X are operand 0
C6_Witness ==
    SomeComponent(LAMBDA operands, node, component :
        /\ node.tag = "REX"
        /\ has(node.attrib, "BX-operand-number")
        /\ node.attrib["BX-operand-number"] = <<"0">>
        /\ Len(operands) = 2
        /\ is_memory(operands[1])
        /\ is_register(operands[2])
        /\ component.B = Ref(0)
        /\ component.X = Ref(0))

----------------------------------------------------------------------------
(* C7: in a returned model every bit W/R/X/B of a REX component and        *)
(* W/L/R/X/B of a VEX component is 0, 1, None (ignored) or a reference to  *)
(* an operand of the form; a node with another literal, such as W="2",     *)
(* makes the load fail.                                                    *)
BitSource(v, operands) ==
    \/ v \in {IntV(0), IntV(1), None}
    \/ v.kind = "ref" /\ 0 <= v.val /\ v.val < Len(operands)

C7_BitSources ==
    EveryComponent(LAMBDA operands, node, component :
        /\ component.cls \in {"REX", "VEX"} =>
               /\ BitSource(component.W, operands)
               /\ BitSource(component.R, operands)
               /\ BitSource(component.X, operands)
               /\ BitSource(component.B, operands)
        /\ component.cls = "VEX" => BitSource(component.L, operands))

----------------------------------------------------------------------------
(* C8: in a returned model an Immediate node has size 1, 2, 4 or 8 and its *)
(* component is the one ImmediateByte, ImmediateWord, ImmediateDWord or    *)
(* ImmediateQWord of that size; a CodeOffset node has size 1 or 4 and a    *)
(* CodeOffset8 or CodeOffset32; a DataOffset node has size 4 or 8 and a    *)
(* DataOffset32 or DataOffset64; the component refers to the operand the   *)
(* node names.  A node with another size makes the load fail.              *)
SizedTags == {"Immediate", "CodeOffset", "DataOffset"}

\* the class for a tag and a size
SizedClass(tag, size) ==
    CASE tag = "Immediate" /\ size = 1 -> "ImmediateByte"
      [] tag = "Immediate" /\ size = 2 -> "ImmediateWord"
      [] tag = "Immediate" /\ size = 4 -> "ImmediateDWord"
      [] tag = "Immediate" /\ size = 8 -> "ImmediateQWord"
      [] tag = "CodeOffset" /\ size = 1 -> "CodeOffset8"
      [] tag = "CodeOffset" /\ size = 4 -> "CodeOffset32"
      [] tag = "DataOffset" /\ size = 4 -> "DataOffset32"
      [] tag = "DataOffset" /\ size = 8 -> "DataOffset64"
      [] OTHER -> "none"

\* the field of an immediate or offset component
Referent(component) ==
    CASE component.cls = "ImmediateByte" -> component.byte
      [] component.cls = "ImmediateWord" -> component.word
      [] component.cls = "ImmediateDWord" -> component.dword
      [] component.cls = "ImmediateQWord" -> component.qword
      [] OTHER -> component.offset

\* how many elements of seq satisfy P
Count(seq, P(_)) == Cardinality({i \in DOMAIN seq : P(seq[i])})

C8_SizeSelectsVariant ==
    /\ EveryComponent(LAMBDA operands, node, component :
           (node.tag \in SizedTags \/ TagOf(component.cls) \in SizedTags) =>
               /\ \E size \in {1, 2, 4, 8} :
                      /\ Names(node.attrib, "size", size)
                      /\ component.cls = SizedClass(node.tag, size)
               /\ has(node.attrib, "operand-number")
               /\ Referent(component).kind = "ref"
               /\ \A n \in 0..(Len(operands) - 1) :
                      Names(node.attrib, "operand-number", n)
                          => Referent(component) = Ref(n))
    /\ \A f \in DOMAIN ReturnedForms :
           \A e \in DOMAIN ReturnedForms[f].encodings :
               \A tag \in SizedTags :
                   Count(ReturnedForms[f].encodings[e].xml, LAMBDA node : node.tag = tag)
                     = Count(ReturnedForms[f].encodings[e].components,
                             LAMBDA component : TagOf(component.cls) = tag)

\* an Immediate node of size 4 for operand 1 gave an ImmediateDWord of operand 1
C8_Witness ==
    SomeComponent(LAMBDA operands, node, component :
        /\ node.tag = "Immediate"
        /\ Names(node.attrib, "size", 4)
        /\ Names(node.attrib, "operand-number", 1)
        /\ component.cls = "ImmediateDWord"
        /\ component.dword = Ref(1))

----------------------------------------------------------------------------
(* C9: in a returned model every Opcode component has a byte in 0..255,    *)
(* and an addend, when there is one, is a register operand.                *)
C9_OpcodeByteAndAddend ==
    EveryComponent(LAMBDA operands, node, component :
        component.cls = "Opcode" =>
            /\ 0 <= component.byte /\ component.byte <= 255
            /\ component.addend.kind = "ref"
                   => is_register(operands[component.addend.val + 1]))

----------------------------------------------------------------------------
(* C10: in a returned model every VEX component has mmmmm in               *)
(* {0b00001, 0b00010, 0b00011} and pp in {0b00, 0b01, 0b10, 0b11}.         *)
C10_VexClasses ==
    EveryComponent(LAMBDA operands, node, component :
        component.cls = "VEX" =>
            /\ component.mmmmm \in {IntV(1), IntV(2), IntV(3)}
            /\ component.pp \in {IntV(0), IntV(1), IntV(2), IntV(3)})

----------------------------------------------------------------------------
(* C11: in a returned model every Prefix component has byte 0x66, 0xF2 or  *)
(* 0xF3, the value of the byte attribute of its node read as hexadecimal;  *)
(* a Prefix node with another byte makes the load fail.                    *)
PrefixBytes == {102, 242, 243}

C11_PrefixByte ==
    EveryComponent(LAMBDA operands, node, component :
        (node.tag = "Prefix" \/ component.cls = "Prefix") =>
            /\ component.cls = "Prefix"
            /\ component.byte \in PrefixBytes
            /\ has(node.attrib, "byte")
            /\ int(node.attrib["byte"], 16) = Ok(component.byte))

\* a Prefix node with byte="F2" gave a Prefix with byte 0xF2
C11_Witness ==
    SomeComponent(LAMBDA operands, node, component :
        /\ node.tag = "Prefix"
        /\ node.attrib["byte"] = <<"F", "2">>
        /\ component.cls = "Prefix"
        /\ component.byte = 242)

----------------------------------------------------------------------------
(* C12: the load is all or nothing.  When it fails, at whatever node of    *)
(* the document, no instruction is returned; when it returns, every        *)
(* instruction node of the document was read without a failure and the     *)
(* result holds one Instruction for each of them, in document order.       *)
C12_AllOrNothing ==
    /\ pc = "failed" => instruction_set = <<>>
    /\ pc = "returned" =>
           /\ Len(instruction_set) = Len(document)
           /\ \A i \in DOMAIN document :
                  /\ document[i].tag = "Instruction"
                  /\ instruction_set[i].xml = document[i]
                  /\ instruction_set[i].name = document[i].attrib["name"]
                  /\ instruction_set[i].summary = Str(document[i].attrib["summary"])
                  /\ \A f \in DOMAIN instruction_set[i].forms :
                         instruction_set[i].forms[f].xml # None

\* the load failed in the second instruction, after the first one was finished
C12_Witness ==
    /\ pc = "failed"
    /\ Len(document) = 2
    /\ document[1] = Node("Instruction", "name" :> "ADD" @@ "summary" :> "Add")
    /\ document[2] = Node("Instruction", "name" :> "SUB" @@ "summary" :> "Subtract")
    /\ instruction_set = <<>>

----------------------------------------------------------------------------
(* C13: every form, as soon as its first encoding may be read, has one     *)
(* Operand for each operand node of the form node, in order, with the      *)
(* type of the node and is_input / is_output true exactly when the node    *)
(* says "true"; and a returned model of one instruction with one form, one *)
(* operand of a register type that is read and written, and one encoding   *)
(* of one Opcode node without addend has one Operand (is_variable,         *)
(* is_register, not is_memory) and one Encoding of one Opcode with the     *)
(* byte of the node and no addend.                                         *)
FormsRead ==
    FormsOf(instruction_set)
    \o (IF pc \in {"forms", "encodings", "components"} THEN instruction.forms ELSE <<>>)
    \o (IF pc \in {"encodings", "components"} THEN <<instruction_form>> ELSE <<>>)

\* the attribute key of node is "true"
Declared(node, key) == has(node.attrib, key) /\ node.attrib[key] = S_true

\* form was read from one operand node, read and written, and one encoding
\* node that holds one Opcode node without addend
RoundTripShape(form) ==
    /\ Len(form.xml.operands) = 1
    /\ Declared(form.xml.operands[1], "input")
    /\ Declared(form.xml.operands[1], "output")
    /\ Len(form.encodings) = 1
    /\ Len(form.encodings[1].xml) = 1
    /\ form.encodings[1].xml[1].tag = "Opcode"
    /\ ~has(form.encodings[1].xml[1].attrib, "addend-operand-number")

\* what the round trip gives for form
RoundTripResult(form) ==
    /\ Len(form.operands) = 1
    /\ is_variable(form.operands[1])
    /\ is_register(form.operands[1])
    /\ ~is_memory(form.operands[1])
    /\ Len(form.encodings[1].components) = 1
    /\ form.encodings[1].components[1].cls = "Opcode"
    /\ Ok(form.encodings[1].components[1].byte)
           = int(form.encodings[1].xml[1].attrib["byte"], 16)
    /\ form.encodings[1].components[1].addend = None

\* the operands of form are the operand nodes of its node
OperandsAsDeclared(form) ==
    /\ Len(form.operands) = Len(form.xml.operands)
    /\ \A i \in DOMAIN form.operands :
           /\ form.operands[i].type = form.xml.operands[i].attrib["type"]
           /\ form.operands[i].is_input = Declared(form.xml.operands[i], "input")
           /\ form.operands[i].is_output = Declared(form.xml.operands[i], "output")

C13_OperandsOfForm ==
    /\ \A f \in DOMAIN FormsRead : OperandsAsDeclared(FormsRead[f])
    /\ (pc = "returned" /\ Len(instruction_set) = 1 /\ Len(instruction_set[1].forms) = 1) =>
           LET form == instruction_set[1].forms[1]
           IN  (RoundTripShape(form) /\ form.xml.operands[1].attrib["type"] \in RegisterTypes)
                   => RoundTripResult(form)

----------------------------------------------------------------------------
(* C14: a form node that lacks gas-name, or go-name, is loaded, and the    *)
(* form has None as that name: the load never fails at a form node that    *)
(* would be read with both names put in, and every form read from a node   *)
(* without gas-name (go-name) has gas_name (go_name) None.                 *)

\* the form node node with the attributes keys that it lacks put in
WithNames(node, keys) ==
    [node EXCEPT !.attrib = node.attrib @@ [key \in keys |-> FormDefault[key]]]

\* the loop over the form nodes took a node and the load failed
FormFails == pc = "forms" /\ pc' = "failed"

C14_AlternateNamesOptional ==
    [][/\ \A f \in DOMAIN FormsRead' :
              LET form == FormsRead'[f]
              IN  /\ ~has(form.xml.attrib, "gas-name") => form.gas_name = None
                  /\ ~has(form.xml.attrib, "go-name") => form.go_name = None
       /\ FormFails =>
              ~read_InstructionForm(instruction.name,
                                    WithNames(xml_form', {"gas-name", "go-name"})).ok]_vars

(* C14, amended: a form node that lacks go-name is loaded and the form has *)
(* go_name None (never the empty string); a form node that lacks gas-name  *)
(* makes the load fail, so that every form read has the gas-name of its    *)
(* node as gas_name.                                                       *)
C14_GoNameOptional ==
    [][/\ \A f \in DOMAIN FormsRead' :
              LET form == FormsRead'[f]
              IN  /\ has(form.xml.attrib, "gas-name")
                  /\ form.gas_name = Str(form.xml.attrib["gas-name"])
                  /\ form.go_name = IF has(form.xml.attrib, "go-name")
                                    THEN Str(form.xml.attrib["go-name"])
                                    ELSE None
                  /\ form.go_name # Str("")
       /\ FormFails =>
              ~read_InstructionForm(instruction.name, WithNames(xml_form', {"go-name"})).ok
       /\ (pc = "forms" /\ pc' = "encodings") => has(xml_form'.attrib, "gas-name")]_vars

\* a returned form read from a node without go-name
C14_Witness ==
    \E f \in DOMAIN ReturnedForms :
        /\ ~has(ReturnedForms[f].xml.attrib, "go-name")
        /\ ReturnedForms[f].gas_name = Str("addl")
        /\ ReturnedForms[f].go_name = None

----------------------------------------------------------------------------
(* C16: in a returned model every form has mmx_mode None, "FPU" or "MMX"   *)
(* and xmm_mode None, "SSE" or "AVX": None when its node has no such       *)
(* attribute, and a form node with another value makes the load fail.      *)
C16_TechnologyStates ==
    \A f \in DOMAIN ReturnedForms :
        LET form == ReturnedForms[f]
        IN  /\ form.mmx_mode \in {None, Str("FPU"), Str("MMX")}
            /\ form.xmm_mode \in {None, Str("SSE"), Str("AVX")}
            /\ form.mmx_mode = None <=> ~has(form.xml.attrib, "mmx-mode")
            /\ form.xmm_mode = None <=> ~has(form.xml.attrib, "xmm-mode")

----------------------------------------------------------------------------
(* C15: once the loader has returned, no call of a method of an object of  *)
(* the model changes a field of the object: after any calls, set_ignored   *)
(* of REX and VEX included, the object is as the loader built it.          *)
C15_Immutable == self = loaded

\* the fields of an object of class cls that hold a bit
BitFields(cls) ==
    CASE cls = "REX" -> {"W", "R", "X", "B"}
      [] cls = "VEX" -> {"W", "L", "R", "X", "B"}
      [] OTHER -> {}

\* the class of self
ClassOf(obj) == IF "cls" \in DOMAIN obj THEN obj.cls ELSE "Operand"

\* field of self was an ignored bit when the loader returned
WasIgnored(field) == field \in BitFields(ClassOf(loaded)) /\ loaded[field] = None

(* C15, amended: once the loader has returned, the only fields a method    *)
(* call changes are the bits of a REX or VEX that were ignored (None) when *)
(* the loader returned, which set_ignored replaces by 0 or 1; every other  *)
(* field of every object is as the loader built it.                        *)
C15_OnlyIgnoredBitsChange ==
    /\ DOMAIN self = DOMAIN loaded
    /\ \A field \in DOMAIN loaded :
           IF WasIgnored(field)
           THEN self[field] \in {None, IntV(0), IntV(1)}
           ELSE self[field] = loaded[field]

\* set_ignored has given 1 to the ignored R of a REX whose W is the literal 0
C15_Witness ==
    /\ IsA("REX")
    /\ loaded.R = None
    /\ loaded.W = IntV(0)
    /\ call # Unbound
    /\ ~call.raised
    /\ self.R = IntV(1)
    /\ self.W = IntV(0)

----------------------------------------------------------------------------
(* C17: read on an Operand of a documented type, is_register is true       *)
(* exactly of the register types and is_memory exactly of the memory       *)
(* types (both are false of the constant, offset and immediate types),     *)
(* and they are never both true.                                           *)
C17_OperandPredicates ==
    ("type" \in DOMAIN self /\ call # Unbound) =>
        /\ call.method = "is_register" => call.value = (self.type \in RegisterTypes)
        /\ call.method = "is_memory" => call.value = (self.type \in MemoryTypes)
        /\ ~(is_register(self) /\ is_memory(self))

----------------------------------------------------------------------------
(* C18: after any calls of set_ignored on a REX or VEX, a bit that was     *)
(* ignored (None) when the loader returned is None if no call has          *)
(* returned, and else the default the first call that returned gave for    *)
(* it; every other field is as the loader built it; and a call fails       *)
(* exactly when one of its arguments is not 0 or 1, changing nothing.      *)
ArgumentOf(field) ==
    CASE field = "W" -> "w"
      [] field = "L" -> "l"
      [] field = "R" -> "r"
      [] field = "X" -> "x"
      [] field = "B" -> "b"

C18_SetIgnored ==
    (IsA("REX") \/ IsA("VEX")) =>
        /\ \A field \in DOMAIN loaded :
               self[field] = IF WasIgnored(field) /\ first # None
                             THEN IntV(first[ArgumentOf(field)])
                             ELSE loaded[field]
        /\ first # None => \A k \in DOMAIN first : first[k] \in {0, 1}
        /\ call # Unbound =>
               call.raised = (\E k \in DOMAIN call.args : call.args[k] \notin {0, 1})

\* the first call gave 1 to the ignored X of a VEX, and a later call with other
\* defaults has left it 1
C18_Witness ==
    /\ IsA("VEX")
    /\ loaded.X = None
    /\ first # None
    /\ first.x = 1
    /\ call.args.x = 0
    /\ ~call.raised
    /\ self.X = IntV(1)

====
